---- MODULE Spec2Model ----
(***************************************************************************)
(* A model of generator.py: process_images_and_embed_metadata walking a   *)
(* directory (or a single file), asking the remote vision model for a     *)
(* description of each media item, and embedding it with IPTCInfo, ffmpeg *)
(* and exiftool.  The state is the file system, the call stack of the     *)
(* recursive function and a log of the external operations it performed.  *)
(* Strings whose characters matter (file names, keywords) are sequences   *)
(* of one-character strings.                                              *)
(***************************************************************************)
EXTENDS Naturals, Sequences, FiniteSets, TLC

\* ------------------------------------------------------------------ bounds

\* At most this many entries exist below the root directory.
MaxEntries == 3
\* The remote model returns at most this many keywords (SpecKw).
MaxKw == 2
\* A keyword has at most this many characters (SpecKw).
MaxKwLen == 2

\* ------------------------------------------------------- strings and paths

NameA == <<"a", ".", "j", "p", "g">>
NameV == <<"v", ".", "M", "P", "4">>
NameN == <<"n", ".", "t", "x", "t">>
NameDot == <<".", "j", "p", "g">>
NameS == <<"s", ".", "j", "p", "e", "g">>

Names == {NameA, NameV, NameN, NameDot, NameS}

\* The root directory is <<>>; a path is the sequence of names below it.
Root == <<>>
Paths == {<<n>> : n \in Names} \cup {<<NameS, n>> : n \in {NameA, NameV}}

\* "dangling" is a dangling symbolic link: os.listdir names it, but isdir,
\* isfile and exists are all false for it.
Kinds == {"none", "file", "dir", "dangling"}

\* str.lower() on the characters that occur in the names.
LowerChar(c) ==
    CASE c = "M" -> "m"
      [] c = "P" -> "p"
      [] OTHER -> c

Lower(s) == [i \in 1..Len(s) |-> LowerChar(s[i])]

\* str.endswith(suffix)
EndsWith(s, suf) ==
    /\ Len(s) >= Len(suf)
    /\ SubSeq(s, Len(s) - Len(suf) + 1, Len(s)) = suf

ExtJpg == <<".", "j", "p", "g">>
ExtJpeg == <<".", "j", "p", "e", "g">>
ExtPng == <<".", "p", "n", "g">>
ExtMp4 == <<".", "m", "p", "4">>

\* A faulty variant: the filter without lower().
MediaFilterNoLower(fname) ==
    \E suf \in {ExtJpg, ExtJpeg, ExtPng, ExtMp4} : EndsWith(fname, suf)

\* fname.lower().endswith((".jpg", ".jpeg", ".png", ".mp4"))
MediaFilter(fname) ==
    \E suf \in {ExtJpg, ExtJpeg, ExtPng, ExtMp4} : EndsWith(Lower(fname), suf)

\* os.path.splitext(path)[1] on the last component: the text from the last
\* dot on, unless only dots come before that dot.
Splitext(name) ==
    LET dots == {i \in 1..Len(name) : name[i] = "."}
    IN  IF dots = {} THEN <<>>
        ELSE LET last == CHOOSE i \in dots : \A j \in dots : j <= i
             IN  IF \E j \in 1..(last - 1) : name[j] # "."
                 THEN SubSeq(name, last, Len(name))
                 ELSE <<>>

\* os.path.basename(path)
Basename(path) == path[Len(path)]

\* os.path.join(path, fname)
Join(path, fname) == Append(path, fname)

\* ";".join(keywords)
RECURSIVE JoinKw(_)
JoinKw(keywords) ==
    IF keywords = <<>> THEN <<>>
    ELSE IF Len(keywords) = 1 THEN keywords[1]
    ELSE keywords[1] \o <<";">> \o JoinKw(Tail(keywords))

\* metadata_args of embed_metadata_in_video, one string per -metadata option
MetadataArgs(title, keywords) ==
    << <<"title=">> \o title,
       <<"keywords=">> \o JoinKw(keywords),
       <<"comment=">> \o JoinKw(keywords),
       <<"description=">> \o JoinKw(keywords) >>

\* exiftool_keywords of embed_metadata_in_video
ExiftoolKeywords(keywords) ==
    [i \in 1..Len(keywords) |-> <<"-XMP:Subject=">> \o keywords[i]]

\* ------------------------------------------------------------------- state

VARIABLES
    kind,        \* [Paths -> Kinds]: what os.path.isdir / isfile see
    content,     \* [Paths -> {"orig", "iptc", "remuxed", "xmp"}]: a file's metadata state
    temps,       \* the videos whose temporary still frame exists
    backups,     \* the image paths p whose backup file p~ exists
    backups0,    \* the backup files that existed before the call
    tempOutputs, \* the videos p whose p.temp.mp4 exists
    stack,       \* the frames of process_images_and_embed_metadata, innermost last
    status,      \* "running", "returned" or "raised"
    returned,    \* the top-level call's result
    events,      \* the external operations performed so far, in order
    answers,     \* the descriptions the remote model may return
    arg          \* the path the top-level call was given

vars == <<kind, content, temps, backups, backups0, tempOutputs, stack, status,
          returned, events, answers, arg>>

\* ImageDescription
Desc(name, keywords) == [name |-> name, keywords |-> keywords]
NoDesc == Desc(<<>>, <<>>)

\* The still image a frame works on: the file itself, or the temporary frame
\* that mkstemp created for the video.
ImagePath(tmp, path) == [tmp |-> tmp, path |-> path]
NoImage == ImagePath(FALSE, <<>>)

Frame(path) ==
    [path |-> path, pc |-> "start", files |-> <<>>, idx |-> 0, results |-> <<>>,
     image_path |-> NoImage, is_video |-> FALSE, desc |-> NoDesc]

Result(tag, val) == [tag |-> tag, val |-> val]
NoResult == Result("none", <<>>)

Event(op, path, ok, side, args) ==
    [op |-> op, path |-> path, ok |-> ok, side |-> side, args |-> args]

KindOf(p) == IF p = Root THEN "dir" ELSE IF p \in Paths THEN kind[p] ELSE "none"

\* os.listdir(path), as a set
Children(p) == {n \in Names : Join(p, n) \in Paths /\ kind[Join(p, n)] # "none"}

\* The orders in which os.listdir may give the names of S.
Orders(S) ==
    {s \in [1..Cardinality(S) -> S] : \A i, j \in 1..Cardinality(S) : s[i] = s[j] => i = j}

Top == stack[Len(stack)]

\* ------------------------------------------------------- control decisions

ImageExts == {ExtJpg, ExtJpeg, ExtPng}

\* A faulty variant: no else branch, a file with any other extension is
\* taken for an image.
DispatchNoElse(path) ==
    IF KindOf(path) = "dir" THEN "dir"
    ELSE IF KindOf(path) = "file"
         THEN IF Lower(Splitext(Basename(path))) = ExtMp4 THEN "video" ELSE "image"
         ELSE "invalid"

\* The branch process_images_and_embed_metadata takes on a path.
Dispatch(path) ==
    IF KindOf(path) = "dir" THEN "dir"
    ELSE IF KindOf(path) = "file"
         THEN LET ext == Lower(Splitext(Basename(path)))
              IN  IF ext \in ImageExts THEN "image"
                  ELSE IF ext = ExtMp4 THEN "video"
                  ELSE "unsupported"
         ELSE "invalid"

\* A faulty variant: media_files with the case-sensitive filter.
MediaFilesNoLower(path) == {n \in Children(path) : MediaFilterNoLower(n)}

\* media_files: the names of the directory that pass the extension filter.
MediaFiles(path) == {n \in Children(path) : MediaFilter(n)}

\* A faulty variant: the loop stays on the same name.
SameIdx(i) == i

\* The for loop moves on to the next name.
NextIdx(i) == i + 1

\* A faulty variant: the loop catches the exception of an item, records an
\* error result for it and goes on.
UnwindCaught(s) ==
    IF Len(s) = 1 THEN <<>>
    ELSE LET parent == s[Len(s) - 1]
             fname == parent.files[parent.idx]
         IN  SubSeq(s, 1, Len(s) - 2) \o
             <<[parent EXCEPT !.results = (fname :> Result("error", fname)) @@ parent.results,
                              !.idx = @ + 1]>>

\* No frame catches an exception: it leaves every active call.
Unwind(s) == <<>>

\* A faulty variant: subprocess.run without check=True.
SubprocessRunUnchecked(ok) == "continue"

\* subprocess.run(cmd, check=True): a non-zero exit raises.
SubprocessRun(ok) == IF ok THEN "continue" ELSE "raise"

\* A faulty variant: mkstemp before the frame is read.
MkstempFirst(ret, ts, path) == ts \cup {path}

\* extract_first_frame: the temporary file is made only once a frame was read.
TempsAfterExtract(ret, ts, path) == IF ret THEN ts \cup {path} ELSE ts

\* A faulty variant: the backup file is left in place.
KeepBackup(bs, image_path) == bs

\* if os.path.exists(backup_path): os.remove(backup_path)
BackupsAfterCleanup(bs, image_path) == bs \ {image_path}

\* if os.path.exists(image_path): os.remove(image_path), for a video
TempsAfterCleanup(ts, path) == ts \ {path}

\* ------------------------------------------------------------------- Init

Name1 == <<"t">>
KwA == <<"a">>
KwB == <<"b">>

\* What the remote model answers in Spec.
DefaultAnswers == {Desc(Name1, <<KwA>>), Desc(Name1, <<KwA, KwB>>)}

KwChars == {"a", ";"}

\* The sequences over S of length lo..hi.
RECURSIVE SeqsBetween(_, _, _)
SeqsBetween(S, lo, hi) ==
    IF hi = 0 THEN {<<>>}
    ELSE LET shorter == SeqsBetween(S, 0, hi - 1)
         IN  {s \in shorter \cup {Append(t, x) : t \in shorter, x \in S} : Len(s) >= lo}

\* What the remote model answers in SpecKw: at least one keyword, none empty.
AllAnswers ==
    {Desc(Name1, kws) : kws \in SeqsBetween(SeqsBetween(KwChars, 1, MaxKwLen), 1, MaxKw)}

\* What each path of the model's file systems may be: the media files exist
\* or not, n.txt may also be a directory, and s.jpeg, whose name passes the
\* extension filter, may be a file, a directory or a dangling link.
KindsOf(p) ==
    CASE p = <<NameS>> -> Kinds
      [] p = <<NameN>> -> {"none", "file", "dir"}
      [] OTHER -> {"none", "file"}

\* p is q or lies below it.
Below(p, q) == Len(q) <= Len(p) /\ SubSeq(p, 1, Len(q)) = q

\* A file system of at most MaxEntries entries: an entry lies in a directory,
\* and every entry is one the call on a can come across (a itself, what it
\* lies in and what lies below it).
WellFormed(k, a) ==
    /\ \A p \in Paths : k[p] \in KindsOf(p)
    /\ \A p \in Paths : Len(p) = 2 /\ k[p] # "none" => k[SubSeq(p, 1, 1)] = "dir"
    /\ \A p \in Paths : k[p] # "none" => Below(p, a) \/ Below(a, p)
    /\ Cardinality({p \in Paths : k[p] # "none"}) <= MaxEntries

InitRest ==
    /\ content = [p \in Paths |-> "orig"]
    /\ temps = {}
    /\ tempOutputs = {}
    /\ backups0 \in SUBSET {ImagePath(FALSE, p) : p \in {q \in Paths : Dispatch(q) = "image"}}
    /\ backups = backups0
    /\ stack = <<Frame(arg)>>
    /\ status = "running"
    /\ returned = NoResult
    /\ events = <<>>

Init ==
    /\ arg \in {Root} \cup Paths
    /\ kind \in {k \in [Paths -> Kinds] : WellFormed(k, arg)}
    /\ answers = DefaultAnswers
    /\ InitRest

\* ---------------------------------------------------------------- actions

Running(pc) == status = "running" /\ stack # <<>> /\ Top.pc = pc

SetTop(f) == stack' = [stack EXCEPT ![Len(stack)] = f]

Log(e) == events' = Append(events, e)

\* A call returns res: to the loop of the calling frame, or to the caller of
\* the top-level call.
Return(res) ==
    IF Len(stack) = 1
    THEN /\ stack' = <<>>
         /\ status' = "returned"
         /\ returned' = res
    ELSE LET parent == stack[Len(stack) - 1]
             fname == parent.files[parent.idx]
         IN  /\ stack' = SubSeq(stack, 1, Len(stack) - 2) \o
                    <<[parent EXCEPT !.results = (fname :> res) @@ parent.results,
                                     !.idx = NextIdx(@)]>>
             /\ UNCHANGED <<status, returned>>

\* An exception propagates.
Raise ==
    /\ stack' = Unwind(stack)
    /\ status' = IF stack' = <<>> THEN "raised" ELSE "running"
    /\ UNCHANGED returned

fsvars == <<kind, content, temps, backups, backups0, tempOutputs, answers, arg>>

\* os.path.isdir(path): list the directory and keep the media names.
ListDir ==
    /\ Running("start")
    /\ Dispatch(Top.path) = "dir"
    /\ \E order \in Orders(MediaFiles(Top.path)) :
          /\ SetTop([Top EXCEPT !.files = order, !.idx = 1, !.pc = "loop"])
          /\ Log(Event("listdir", Top.path, TRUE, FALSE, order))
    /\ UNCHANGED <<fsvars, status, returned>>

\* The loop body: the recursive call on os.path.join(path, fname).
LoopNext ==
    /\ Running("loop")
    /\ Top.idx <= Len(Top.files)
    /\ stack' = Append(stack, Frame(Join(Top.path, Top.files[Top.idx])))
    /\ UNCHANGED <<fsvars, status, returned, events>>

\* return results
LoopDone ==
    /\ Running("loop")
    /\ Top.idx > Len(Top.files)
    /\ Return(Result("dict", Top.results))
    /\ UNCHANGED <<fsvars, events>>

\* An image is its own still image.
OpenImage ==
    /\ Running("start")
    /\ Dispatch(Top.path) = "image"
    /\ SetTop([Top EXCEPT !.image_path = ImagePath(FALSE, Top.path), !.pc = "request"])
    /\ UNCHANGED <<fsvars, status, returned, events>>

\* extract_first_frame(path)
ExtractFirstFrame ==
    /\ Running("start")
    /\ Dispatch(Top.path) = "video"
    /\ \E ret \in BOOLEAN :
          /\ temps' = TempsAfterExtract(ret, temps, Top.path)
          /\ Log(Event("extract", Top.path, ret, FALSE, <<>>))
          /\ IF ret
             THEN /\ SetTop([Top EXCEPT !.image_path = ImagePath(TRUE, Top.path),
                                        !.is_video = TRUE, !.pc = "request"])
                  /\ UNCHANGED <<status, returned>>
             ELSE Raise
    /\ UNCHANGED <<kind, content, backups, backups0, tempOutputs, answers, arg>>

\* return {"error": "Unsupported file type: ..."}
ReturnUnsupported ==
    /\ Running("start")
    /\ Dispatch(Top.path) = "unsupported"
    /\ Return(Result("error", [msg |-> "Unsupported file type", path |-> Top.path]))
    /\ Log(Event("error", Top.path, TRUE, FALSE, <<>>))
    /\ UNCHANGED fsvars

\* return {"error": "Path ... is not a valid file or directory."}
ReturnInvalid ==
    /\ Running("start")
    /\ Dispatch(Top.path) = "invalid"
    /\ Return(Result("error", [msg |-> "not a valid file or directory", path |-> Top.path]))
    /\ Log(Event("error", Top.path, TRUE, FALSE, <<>>))
    /\ UNCHANGED fsvars

\* client.beta.chat.completions.parse(...) on the still image
Request ==
    /\ Running("request")
    /\ \/ \E d \in answers :
             /\ SetTop([Top EXCEPT !.desc = d, !.pc = "save"])
             /\ Log(Event("request", Top.path, TRUE, FALSE, d.keywords))
             /\ UNCHANGED <<status, returned>>
       \/ /\ Raise
          /\ Log(Event("request", Top.path, FALSE, FALSE, <<>>))
    /\ UNCHANGED fsvars

\* IPTCInfo(image_path, force=True), the two fields, info.save_as(image_path)
SaveIptc ==
    /\ Running("save")
    /\ \E ok \in BOOLEAN, side \in BOOLEAN :
          /\ backups' = IF side THEN backups \cup {Top.image_path} ELSE backups
          /\ Log(Event("iptc", Top.path, ok, side, Top.desc.keywords))
          /\ IF ok
             THEN /\ content' = IF Top.image_path.tmp THEN content
                                ELSE [content EXCEPT ![Top.path] = "iptc"]
                  /\ SetTop([Top EXCEPT !.pc = "rmbackup"])
                  /\ UNCHANGED <<status, returned>>
             ELSE /\ Raise
                  /\ UNCHANGED content
    /\ UNCHANGED <<kind, temps, backups0, tempOutputs, answers, arg>>

\* Remove backup file if it exists
RemoveBackup ==
    /\ Running("rmbackup")
    /\ backups' = BackupsAfterCleanup(backups, Top.image_path)
    /\ SetTop([Top EXCEPT !.pc = IF Top.is_video THEN "ffmpeg" ELSE "ret"])
    /\ UNCHANGED <<kind, content, temps, backups0, tempOutputs, answers, arg,
                   status, returned, events>>

\* embed_metadata_in_video, step 1: ffmpeg writes path.temp.mp4
Ffmpeg ==
    /\ Running("ffmpeg")
    /\ \E ok \in BOOLEAN, side \in BOOLEAN :
          /\ ok => side
          /\ tempOutputs' = IF side THEN tempOutputs \cup {Top.path} ELSE tempOutputs
          /\ Log(Event("ffmpeg", Top.path, ok, side,
                       MetadataArgs(Top.desc.name, Top.desc.keywords)))
          /\ IF SubprocessRun(ok) = "continue"
             THEN /\ SetTop([Top EXCEPT !.pc = "replace"])
                  /\ UNCHANGED <<status, returned>>
             ELSE Raise
    /\ UNCHANGED <<kind, content, temps, backups, backups0, answers, arg>>

\* os.replace(temp_output, video_path)
Replace ==
    /\ Running("replace")
    /\ IF Top.path \in tempOutputs
       THEN /\ content' = [content EXCEPT ![Top.path] = "remuxed"]
            /\ tempOutputs' = tempOutputs \ {Top.path}
            /\ Log(Event("replace", Top.path, TRUE, FALSE, <<>>))
            /\ SetTop([Top EXCEPT !.pc = "exiftool"])
            /\ UNCHANGED <<status, returned>>
       ELSE /\ Raise
            /\ Log(Event("replace", Top.path, FALSE, FALSE, <<>>))
            /\ UNCHANGED <<content, tempOutputs>>
    /\ UNCHANGED <<kind, temps, backups, backups0, answers, arg>>

\* embed_metadata_in_video, step 2: exiftool -overwrite_original
Exiftool ==
    /\ Running("exiftool")
    /\ \E ok \in BOOLEAN :
          /\ Log(Event("exiftool", Top.path, ok, FALSE, ExiftoolKeywords(Top.desc.keywords)))
          /\ IF SubprocessRun(ok) = "continue"
             THEN /\ content' = IF ok THEN [content EXCEPT ![Top.path] = "xmp"] ELSE content
                  /\ SetTop([Top EXCEPT !.pc = "rmtemp"])
                  /\ UNCHANGED <<status, returned>>
             ELSE /\ Raise
                  /\ UNCHANGED content
    /\ UNCHANGED <<kind, temps, backups, backups0, tempOutputs, answers, arg>>

\* Clean up temp image if video
RemoveTemp ==
    /\ Running("rmtemp")
    /\ temps' = TempsAfterCleanup(temps, Top.path)
    /\ SetTop([Top EXCEPT !.pc = "ret"])
    /\ UNCHANGED <<kind, content, backups, backups0, tempOutputs, answers, arg,
                   status, returned, events>>

\* return {"labels": recognized_text}
ReturnLabels ==
    /\ Running("ret")
    /\ Return(Result("labels", Top.desc))
    /\ Log(Event("done", Top.path, TRUE, FALSE, <<>>))
    /\ UNCHANGED fsvars

Next ==
    \/ ListDir
    \/ LoopNext
    \/ LoopDone
    \/ OpenImage
    \/ ExtractFirstFrame
    \/ ReturnUnsupported
    \/ ReturnInvalid
    \/ Request
    \/ SaveIptc
    \/ RemoveBackup
    \/ Ffmpeg
    \/ Replace
    \/ Exiftool
    \/ RemoveTemp
    \/ ReturnLabels

Spec == Init /\ [][Next]_vars

\* The same program with the remote model's answer drawn from every keyword
\* list within the bounds, on a directory that holds one item of each kind.
KindKw ==
    [p \in Paths |->
        CASE p = <<NameA>> -> "file"
          [] p = <<NameV>> -> "file"
          [] p = <<NameDot>> -> "file"
          [] p = <<NameS>> -> "dangling"
          [] OTHER -> "none"]

InitKw ==
    /\ kind = KindKw
    /\ arg = Root
    /\ \E d \in AllAnswers : answers = {d}
    /\ InitRest

SpecKw == InitKw /\ [][Next]_vars

\* ------------------------------------------------------------------ claims

EvIdx == 1..Len(events)

\* The events of processing one file, as opposed to listing a directory.
IsItemEvent(e) == e.op # "listdir"

WriteOps == {"iptc", "ffmpeg", "replace", "exiftool"}

\* An immediate child's name is eligible: lower-cased, it ends in one of the
\* four media extensions.
Eligible(n) ==
    \/ EndsWith(Lower(n), <<".", "j", "p", "g">>)
    \/ EndsWith(Lower(n), <<".", "j", "p", "e", "g">>)
    \/ EndsWith(Lower(n), <<".", "p", "n", "g">>)
    \/ EndsWith(Lower(n), <<".", "m", "p", "4">>)

\* The call on p has ended: it returned labels, or one of its steps failed.
Finished(i) == events[i].op = "done" \/ ~events[i].ok

\* C1: once the processing of a .mp4 item has finished, by returning or by a
\* failure propagating out, the temporary still frame made for it is gone.
C1_NoLeftoverTempFrame ==
    \A i \in EvIdx :
        Finished(i) /\ Dispatch(events[i].path) = "video" => events[i].path \notin temps

\* C2: a call on a directory that returns gives a mapping whose keys are
\* exactly the eligible immediate children, one entry each, and none for an
\* ineligible child; the same holds of the mapping of every finished loop.
C2_ExactlyEligibleEntries ==
    /\ status = "returned" /\ KindOf(arg) = "dir" =>
          /\ returned.tag = "dict"
          /\ DOMAIN returned.val = {n \in Children(arg) : Eligible(n)}
          /\ Cardinality(DOMAIN returned.val) =
                Cardinality({n \in Children(arg) : Eligible(n)})
    /\ \A k \in 1..Len(stack) :
          stack[k].pc = "loop" /\ stack[k].idx > Len(stack[k].files) =>
             DOMAIN stack[k].results = {n \in Children(stack[k].path) : Eligible(n)}

C2_Witness ==
    /\ status = "returned"
    /\ arg = Root
    /\ kind[<<NameN>>] = "file"
    /\ DOMAIN returned.val = {NameA, NameV}

\* The path does not exist, or is a file with none of the four extensions.
NoSuchOrUnsupported(p) ==
    \/ KindOf(p) \in {"none", "dangling"}
    \/ /\ KindOf(p) = "file"
       /\ Lower(Splitext(Basename(p))) \notin
             {<<".", "j", "p", "g">>, <<".", "j", "p", "e", "g">>,
              <<".", "p", "n", "g">>, <<".", "m", "p", "4">>}

\* C3: a call on a path that does not exist, or on a file with an unsupported
\* extension, returns an error result and never raises; it issues no request,
\* spawns no process and creates or changes no file.
C3_ErrorResultNoEffects ==
    /\ NoSuchOrUnsupported(arg) =>
          /\ status # "raised"
          /\ status = "returned" => returned.tag = "error"
          /\ \A i \in EvIdx : events[i].op = "error"
          /\ content = [p \in Paths |-> "orig"]
          /\ temps = {} /\ tempOutputs = {} /\ backups = backups0
    /\ \A p \in Paths : NoSuchOrUnsupported(p) =>
          /\ \A i \in EvIdx : events[i].path = p => events[i].op = "error"
          /\ content[p] = "orig"
          /\ p \notin temps /\ p \notin tempOutputs
          /\ ImagePath(FALSE, p) \in backups <=> ImagePath(FALSE, p) \in backups0
          /\ ImagePath(TRUE, p) \notin backups
          /\ \A k \in 1..Len(stack) :
                /\ stack[k].path = p => stack[k].pc = "start"
                /\ \A n \in DOMAIN stack[k].results :
                      Join(stack[k].path, n) = p => stack[k].results[n].tag = "error"

C3_Witness ==
    /\ arg = <<NameN>>
    /\ kind[arg] = "file"
    /\ status = "returned"
    /\ returned.tag = "error"

\* C4: on a directory, only immediate children are processed and no child's
\* contents are ever listed.
C4_OneLevelOnly ==
    KindOf(arg) = "dir" =>
        \A i \in EvIdx :
            IF events[i].op = "listdir"
            THEN events[i].path = arg
            ELSE Len(events[i].path) = Len(arg) + 1

\* C5: once an image has been processed with a successful save, its backup
\* file path~ does not exist, whether or not the save produced it.
C5_NoBackupAfterImage ==
    /\ \A i \in EvIdx :
          events[i].op = "done" /\ Dispatch(events[i].path) = "image" =>
             ImagePath(FALSE, events[i].path) \notin backups
    /\ status = "returned" /\ returned.tag = "labels" /\ Dispatch(arg) = "image" =>
          ImagePath(FALSE, arg) \notin backups

C5_Witness ==
    /\ status = "returned"
    /\ returned.tag = "labels"
    /\ arg = <<NameA>>
    /\ \E i \in EvIdx : events[i].op = "iptc" /\ events[i].ok /\ events[i].side

\* What a reader of the tags gets from str.split(";"): the pieces between
\* the separators, one more than there are separators.
RECURSIVE SplitKw(_)
SplitKw(s) ==
    LET seps == {i \in 1..Len(s) : s[i] = ";"}
    IN  IF seps = {} THEN <<s>>
        ELSE LET first == CHOOSE i \in seps : \A j \in seps : i <= j
             IN  <<SubSeq(s, 1, first - 1)>> \o SplitKw(SubSeq(s, first + 1, Len(s)))

\* C6: the keyword list the model returned reaches every write unchanged:
\* the IPTC keywords field gets the list itself, exiftool gets one subject
\* argument per keyword in order, and splitting the keywords, comment and
\* description tags on ";" gives the list back.
C6_KeywordsRoundTrip ==
    \A i \in EvIdx, j \in EvIdx :
        /\ i < j
        /\ events[i].op = "request" /\ events[i].ok
        /\ events[j].path = events[i].path
        => LET kws == events[i].args
               args == events[j].args
           IN  /\ events[j].op = "iptc" => args = kws
               /\ events[j].op = "exiftool" =>
                     /\ Len(args) = Len(kws)
                     /\ \A k \in 1..Len(kws) : args[k] = <<"-XMP:Subject=">> \o kws[k]
               /\ events[j].op = "ffmpeg" =>
                     \A t \in 2..4 : SplitKw(Tail(args[t])) = kws

\* C7: an item that ends in an error result leaves the batch running (the
\* later items are still processed and the mapping returned has an entry for
\* every item), while a failed step is the last thing the program does: no
\* later item is processed, no mapping is returned, and what earlier items
\* wrote stays written.
C7_ErrorContinuesExceptionAborts ==
    /\ \A i \in EvIdx : events[i].op = "error" /\ events[i].path # arg =>
          /\ status = "raised" => ~events[Len(events)].ok
          /\ status = "returned" =>
                \A l \in EvIdx : events[l].op = "listdir" =>
                   \A m \in 1..Len(events[l].args) :
                      \E j \in EvIdx : events[j].path = Join(events[l].path, events[l].args[m])
    /\ \A k \in 1..Len(stack) : stack[k].pc = "loop" =>
          DOMAIN stack[k].results = {stack[k].files[m] : m \in 1..(stack[k].idx - 1)}
    /\ status = "returned" /\ returned.tag = "dict" =>
          \A l \in EvIdx : events[l].op = "listdir" /\ events[l].path = arg =>
             DOMAIN returned.val = {events[l].args[m] : m \in 1..Len(events[l].args)}
    /\ \A i \in EvIdx : ~events[i].ok =>
          /\ i = Len(events)
          /\ status = "raised"
          /\ stack = <<>>
          /\ returned.tag = "none"
    /\ \A i \in EvIdx : events[i].ok =>
          /\ events[i].op = "iptc" /\ Dispatch(events[i].path) = "image" =>
                content[events[i].path] = "iptc"
          /\ events[i].op = "replace" => content[events[i].path] \in {"remuxed", "xmp"}
          /\ events[i].op = "exiftool" => content[events[i].path] = "xmp"

C7_Witness ==
    /\ status = "raised"
    /\ arg = Root
    /\ \E i \in EvIdx, j \in EvIdx :
          /\ i < j /\ j < Len(events)
          /\ events[i].op = "error"
          /\ events[j].op = "done"
          /\ content[events[j].path] # "orig"
          /\ events[Len(events)].path # events[j].path
          /\ ~events[Len(events)].ok

\* C8: a file is the subject of at most one remote request, a finished item
\* had exactly one, and items are handled one at a time: when a request is
\* issued every item begun earlier has ended, and no temporary frame, backup
\* or ffmpeg output of an earlier item is left to clean up.
C8_OneRequestPerItemSequential ==
    /\ \A i \in EvIdx, j \in EvIdx :
          events[i].op = "request" /\ events[j].op = "request" /\ i # j =>
             events[i].path # events[j].path
    /\ \A i \in EvIdx : events[i].op = "done" =>
          Cardinality({j \in 1..i : events[j].op = "request" /\ events[j].ok
                                     /\ events[j].path = events[i].path}) = 1
    /\ \A i \in EvIdx, j \in EvIdx :
          /\ i < j
          /\ events[j].op = "request"
          /\ IsItemEvent(events[i])
          /\ events[i].path # events[j].path
          => \E k \in i..(j - 1) :
                /\ events[k].path = events[i].path
                /\ events[k].op \in {"done", "error"}
    /\ \A i \in EvIdx, j \in EvIdx :
          i < j /\ events[i].op \in {"done", "error"} => events[j].path # events[i].path
    /\ \A k \in 1..Len(stack) : stack[k].pc = "request" =>
          /\ temps \subseteq {stack[k].path}
          /\ tempOutputs = {}
          /\ \A b \in backups : b \in backups0 /\ ~(\E i \in EvIdx : events[i].path = b.path)

C8_Witness ==
    /\ status = "returned"
    /\ \E i \in EvIdx, j \in EvIdx :
          /\ i < j
          /\ events[i].op = "request" /\ events[j].op = "request"
          /\ Dispatch(events[i].path) = "video"
          /\ events[i].path # events[j].path

\* C9: exiftool runs only after ffmpeg exited zero and its output replaced
\* the video; a failed ffmpeg leaves the video as it was and ends the run
\* before exiftool; a failed exiftool ends the run with the video remuxed.
C9_TwoPassesInOrderNoRollback ==
    /\ \A j \in EvIdx : events[j].op = "exiftool" =>
          \E i \in 1..j, k \in 1..j :
             /\ i < k /\ k < j
             /\ events[i].op = "ffmpeg" /\ events[i].ok /\ events[i].path = events[j].path
             /\ events[k].op = "replace" /\ events[k].ok /\ events[k].path = events[j].path
    /\ \A j \in EvIdx : events[j].op = "replace" =>
          \E i \in 1..j : events[i].op = "ffmpeg" /\ events[i].ok
                          /\ events[i].path = events[j].path
    /\ \A j \in EvIdx : events[j].op = "ffmpeg" /\ ~events[j].ok =>
          /\ content[events[j].path] = "orig"
          /\ j = Len(events)
          /\ status = "raised"
    /\ \A j \in EvIdx : events[j].op = "exiftool" /\ ~events[j].ok =>
          /\ content[events[j].path] = "remuxed"
          /\ j = Len(events)
          /\ status = "raised"

C9_Witness ==
    \E j \in EvIdx :
        /\ events[j].op = "exiftool" /\ ~events[j].ok
        /\ content[events[j].path] = "remuxed"
        /\ status = "raised"

\* C10: every metadata write of an item (IPTC save, ffmpeg, os.replace,
\* exiftool) comes after a successful request for that item; when frame
\* extraction or the request fails the source file keeps its content, no
\* process was spawned for it, and a failed extraction made no temporary file.
C10_NoWriteBeforeDescription ==
    /\ \A j \in EvIdx : events[j].op \in WriteOps =>
          \E i \in 1..j :
             /\ i < j
             /\ events[i].op = "request" /\ events[i].ok
             /\ events[i].path = events[j].path
    /\ \A p \in Paths : content[p] # "orig" =>
          \E i \in EvIdx : events[i].op = "request" /\ events[i].ok /\ events[i].path = p
    /\ \A j \in EvIdx : events[j].op \in {"extract", "request"} /\ ~events[j].ok =>
          /\ content[events[j].path] = "orig"
          /\ \A k \in EvIdx : events[k].path = events[j].path => events[k].op \notin WriteOps
          /\ events[j].path \notin tempOutputs
          /\ events[j].op = "extract" => events[j].path \notin temps

C10_Witness ==
    /\ status = "raised"
    /\ events[Len(events)].op = "extract"
    /\ ~events[Len(events)].ok
    /\ \E i \in EvIdx : events[i].op = "iptc" /\ events[i].ok

====
